---- MODULE Spec2Model ----
(***************************************************************************)
(* A model of the post service: signup / login (app/routers/users.py),     *)
(* token issuance and the identity resolver (app/auth.py), and the post    *)
(* handlers with their in-process TTL cache (app/routers/posts.py).        *)
(*                                                                         *)
(* Time is counted in units of 300 seconds, so the cache ttl (300 s) is 1, *)
(* timedelta(hours=1) is 12 and timedelta(days=1) is 288.                  *)
(*                                                                         *)
(* Handlers are synchronous `def` routes, which the framework runs on a    *)
(* thread pool: requests of one process interleave between their database  *)
(* and cache accesses.  Each request is a process p in Procs; one action   *)
(* is one atomic step of a handler.                                        *)
(***************************************************************************)
EXTENDS Integers, Sequences, FiniteSets, TLC

\* ------------------------------------------------------------- bounds
NProcs == 2          \* concurrent request slots
MaxPosts == 2        \* posts ever created (post ids 1..MaxPosts)
MaxTicks == 1        \* clock steps in a behaviour

\* ---------------------------------------------------- program constants
CACHE_TTL == 1       \* TTLCache(ttl=300): 300 s = 1 unit
HOUR == 12           \* timedelta(hours=1) = 12 units
DAY == 288           \* timedelta(days=1) = 288 units

Procs == 1..NProcs
Emails == {"a@x.com", "b@x.com"}
Passwords == {"password1", "password2"}
Salts == {"s1"}
Texts == {"hi"}

VARIABLES
    users,      \* table users: sequence of rows, row i has id i
    posts,      \* table posts: set of rows [id, user_id, text]
    nextPostId, \* next primary key of table posts
    cache,      \* posts.cache: email -> entry [posts, expires] or NoEntry
    now,        \* the clock (time.monotonic / datetime.now), in units
    ticks,      \* number of clock steps taken (bounds the behaviour)
    proc,       \* per request slot: position, arguments, locals, response
    held,       \* client side: the latest token each email's owner received
    reg,        \* history: per email, the password of the successful signup
    dropped,    \* history: per email, the handler whose cache.pop was the last
                \* one for the email, if it removed a live entry ("none" if not)
    serial,     \* client side: requests are sent one at a time
    authz,      \* token experiments: the Authorization header under test
    issue,      \* token experiments: <<[t0, delta]>> of the token in authz, or <<>>
    outcome     \* token experiments: result of the last resolver/decoder call

vars == <<users, posts, nextPostId, cache, now, ticks, proc, held, reg,
          dropped, serial, authz, issue, outcome>>

tokVars == <<authz, issue, outcome>>

\* ------------------------------------------------------------ exceptions
NoUser == [id |-> 0, email |-> "none", hashed_password |-> <<>>]
NoPayload == [sub |-> "none", exp |-> 0]

\* raise HTTPException(status_code, detail, headers={"WWW-Authenticate": "Bearer"})
HTTPException(status, detail) ==
    [kind |-> "raise", exc |-> "HTTPException", status |-> status,
     detail |-> detail, www |-> "Bearer", user |-> NoUser,
     payload |-> NoPayload, decoded |-> FALSE]

\* any other exception type (ValueError, jwt.*Error)
Raise(exc) ==
    [kind |-> "raise", exc |-> exc, status |-> 0, detail |-> "none",
     www |-> "none", user |-> NoUser, payload |-> NoPayload, decoded |-> FALSE]

\* a normal return
Return(user, payload) ==
    [kind |-> "return", exc |-> "none", status |-> 200, detail |-> "none",
     www |-> "none", user |-> user, payload |-> payload, decoded |-> FALSE]

NoOutcome ==
    [kind |-> "none", exc |-> "none", status |-> 0, detail |-> "none",
     www |-> "none", user |-> NoUser, payload |-> NoPayload, decoded |-> FALSE]

\* no call has been made since the header or the clock changed
NoCall == [fn |-> "none", r |-> NoOutcome]

\* the part of the exception hierarchy the except clauses of auth.py consult:
\* isinstance(exc, cls)
IsInstance(exc, cls) ==
    \/ cls = "Exception"
    \/ exc = cls
    \/ cls = "InvalidTokenError" /\
         exc \in {"ExpiredSignatureError", "DecodeError", "InvalidSignatureError"}
    \/ cls = "PyJWTError" /\
         exc \in {"InvalidTokenError", "ExpiredSignatureError", "DecodeError",
                  "InvalidSignatureError"}

\* ---------------------------------------------------------------- tokens
\* A header is a sequence of atoms.  An atom is a space, a word, or an encoded
\* JWT [sub, exp, sig]; sig = "ok" iff it was signed with SECRET_KEY.
W(s) == [c |-> s, sub |-> "none", exp |-> 0, sig |-> "none"]
SP == W(" ")
Jwt(sub, exp, sig) == [c |-> "jwt", sub |-> sub, exp |-> exp, sig |-> sig]
NoToken == W("")

\* Optional[timedelta]: <<>> is None, <<d>> is timedelta of d units
Truthy(expires_delta) == expires_delta # <<>> /\ expires_delta[1] # 0

\* auth.create_access_token({"sub": sub}, expires_delta) called at time t
create_access_token(sub, expires_delta, t) ==
    LET expire == IF Truthy(expires_delta) THEN t + expires_delta[1] ELSE t + DAY
    IN  Jwt(sub, expire, "ok")

\* mutant: a token of one hour is honoured only at the instant of its issuance
jwt_decode_IssueInstant(token, t) ==
    IF Len(token) # 1 \/ token[1].c # "jwt" THEN Raise("DecodeError")
    ELSE IF token[1].sig # "ok" THEN Raise("InvalidSignatureError")
    ELSE IF token[1].exp < t + HOUR THEN Raise("ExpiredSignatureError")
    ELSE Return(NoUser, [sub |-> token[1].sub, exp |-> token[1].exp])

\* jwt.decode(token, SECRET_KEY, algorithms=[ALGORITHM]) at time t: the segments
\* are parsed, the signature is verified, then the exp claim is checked.
jwt_decode(token, t) ==
    IF Len(token) # 1 \/ token[1].c # "jwt" THEN Raise("DecodeError")
    ELSE IF token[1].sig # "ok" THEN Raise("InvalidSignatureError")
    ELSE IF token[1].exp <= t THEN Raise("ExpiredSignatureError")
    ELSE Return(NoUser, [sub |-> token[1].sub, exp |-> token[1].exp])

\* auth.decode_jwt_token(token) at time t
decode_jwt_token(token, t) ==
    LET r == jwt_decode(token, t)
    IN  IF r.kind = "return" THEN r
        ELSE IF IsInstance(r.exc, "ExpiredSignatureError")
             THEN HTTPException(401, "Token has expired")
        ELSE IF IsInstance(r.exc, "InvalidTokenError")
             THEN HTTPException(401, "Invalid token claims")
        ELSE HTTPException(401, "Invalid credentials")

\* str.split(" "): the maximal space-free pieces, empty ones included
RECURSIVE Split(_)
Split(h) ==
    IF h = <<>> THEN << <<>> >>
    ELSE LET r == Split(Tail(h))
         IN  IF Head(h) = SP THEN << <<>> >> \o r
             ELSE << <<Head(h)>> \o Head(r) >> \o Tail(r)

\* db.query(User).filter(User.email == email).first()
UserByEmail(us, email) ==
    IF \E i \in 1..Len(us) : us[i].email = email
    THEN us[CHOOSE i \in 1..Len(us) : us[i].email = email]
    ELSE NoUser

\* the try block of get_current_user (auth.py 107-133)
ResolveBody(authorization, us, t) ==
    LET parts == Split(authorization)
    IN  IF Len(parts) # 2 THEN Raise("ValueError")
        ELSE IF parts[1] # <<W("Bearer")>>
             THEN HTTPException(401, "Invalid token type")
        ELSE LET d == decode_jwt_token(parts[2], t)
             IN  IF d.kind = "raise" THEN [d EXCEPT !.decoded = TRUE]
                 ELSE IF d.payload.sub = "none"
                      THEN [HTTPException(401, "Invalid credentials")
                                EXCEPT !.decoded = TRUE]
                 ELSE LET user == UserByEmail(us, d.payload.sub)
                      IN  IF user = NoUser
                          THEN [HTTPException(401, "Invalid credentials")
                                    EXCEPT !.decoded = TRUE]
                          ELSE [Return(user, d.payload) EXCEPT !.decoded = TRUE]

\* auth.get_current_user(authorization, db) at time t: the try block under its
\* two except clauses
get_current_user(authorization, us, t) ==
    LET r == ResolveBody(authorization, us, t)
    IN  IF r.kind = "return" THEN r
        ELSE IF IsInstance(r.exc, "ValueError")
             THEN [HTTPException(400, "Authorization header is malformed")
                       EXCEPT !.decoded = r.decoded]
        ELSE IF IsInstance(r.exc, "Exception")
             THEN [HTTPException(500, "An unexpected error occurred")
                       EXCEPT !.decoded = r.decoded]
        ELSE r

Bearer(tok) == <<W("Bearer"), SP, tok>>

\* ------------------------------------------------------------- storage
\* passlib bcrypt: hash(password) with a fresh salt; the digest is one-way and is
\* kept opaque: it is determined by (salt, password) and nothing reads it
\* but a comparison
HashPw(password, salt) == <<salt, password>>

\* mutant: the comparison ignores the password
verify_password_Any(user, password) == user.hashed_password # <<>>

\* models.User.verify_password: bcrypt.checkpw re-hashes the candidate with the
\* salt of the stored hash and compares
verify_password(user, password) ==
    /\ user.hashed_password # <<>>
    /\ HashPw(password, user.hashed_password[1]) = user.hashed_password

\* mutant: the ownership filter is missing
PostsOf_All(ps, uid) == ps

\* db.query(Post).filter(Post.user_id == uid).all()
PostsOf(ps, uid) == {q \in ps : q.user_id = uid}

\* mutant: the post is looked up by id alone
FindPost_AnyOwner(ps, post_id, uid) == {q \in ps : q.id = post_id}

\* db.query(Post).filter(Post.id == post_id, Post.user_id == uid).first(),
\* as the set of rows found (empty for None)
FindPost(ps, post_id, uid) == {q \in ps : q.id = post_id /\ q.user_id = uid}

\* -------------------------------------------------------------- TTLCache
NoEntry == [posts |-> {}, expires |-> 0]

\* key in cache: present and not expired
Contains(c, email, t) == c[email] # NoEntry /\ t < c[email].expires

\* cache.pop(email, None)
Invalidate(c, email) == [c EXCEPT ![email] = NoEntry]

\* cache[email] = value at time t
Store(c, email, value, t) ==
    [c EXCEPT ![email] = [posts |-> value, expires |-> t + CACHE_TTL]]

\* entries whose ttl has run out are gone for every cache operation
Expire(c, t) == [e \in Emails |-> IF Contains(c, e, t) THEN c[e] ELSE NoEntry]

\* ------------------------------------------------------------- requests
Idle ==
    [pc |-> "idle", op |-> "none", user |-> NoUser, email |-> "none",
     password |-> "none", post_id |-> 0, posts |-> {}, hit |-> FALSE,
     popped |-> FALSE, raced |-> FALSE, status |-> 0, detail |-> "none",
     token |-> NoToken]

InFlight(q) == proc[q].pc \notin {"idle", "done"}

\* a response stays in its slot until it has been written to the client, which
\* is the very next step: a state with pc = "done" shows the response together
\* with the storage and the cache as they are when the handler returns
Quiet == \A q \in Procs : proc[q].pc # "done"

\* request slot p takes a new request
Begin(p) ==
    /\ Quiet
    /\ proc[p].pc = "idle"
    /\ serial => \A q \in Procs : proc[q].pc = "idle"

\* request slot p is at step pc of its handler
At(p, pc) == Quiet /\ proc[p].pc = pc

Respond(r, status, detail) ==
    [r EXCEPT !.pc = "done", !.status = status, !.detail = detail]

\* the response of slot p has been sent
Deliver(p) ==
    /\ proc[p].pc = "done"
    /\ proc' = [proc EXCEPT ![p] = Idle]
    /\ UNCHANGED <<users, posts, nextPostId, cache, now, ticks, held, reg,
                   dropped, serial>>
    /\ UNCHANGED tokVars

\* the headers the clients of the service send: the tokens they were given, and
\* a token made without the signing key
ForgedHeaders == { Bearer(Jwt("a@x.com", DAY, "bad")) }

ClientHeaders ==
    {Bearer(held[e]) : e \in {x \in Emails : held[x] # NoToken}} \cup ForgedHeaders

\* ------------------------------------------------- users.py: signup, login
\* signup, lines 32-38: the duplicate check, the hash, db.add
Signup(p, email, password, salt) ==
    /\ Begin(p)
    /\ LET r == [Idle EXCEPT !.op = "signup", !.email = email,
                             !.password = password]
       IN  IF UserByEmail(users, email) # NoUser
           THEN proc' = [proc EXCEPT ![p] =
                            Respond(r, 400, "Email already registered")]
           ELSE proc' = [proc EXCEPT ![p] =
                            [r EXCEPT !.pc = "signup_commit",
                                      !.user = [id |-> 0, email |-> email,
                                                hashed_password |->
                                                    HashPw(password, salt)]]]
    /\ UNCHANGED <<users, posts, nextPostId, cache, now, ticks, held, reg,
                   dropped, serial>>
    /\ UNCHANGED tokVars

\* mutant: users.email has no unique index, every commit succeeds
SignupCommit_NoUnique(p) ==
    /\ At(p, "signup_commit")
    /\ LET row == [proc[p].user EXCEPT !.id = Len(users) + 1]
           tok == create_access_token(row.email, <<HOUR>>, now)
       IN  /\ users' = Append(users, row)
           /\ proc' = [proc EXCEPT ![p] =
                          [Respond(@, 201, "none") EXCEPT !.user = row,
                                                          !.token = tok]]
           /\ held' = [held EXCEPT ![row.email] = tok]
           /\ reg' = [reg EXCEPT ![row.email] = proc[p].password]
    /\ UNCHANGED <<posts, nextPostId, cache, now, ticks, dropped, serial>>
    /\ UNCHANGED tokVars

\* signup, lines 39-47: db.commit under the unique index on users.email, then
\* the token
SignupCommit(p) ==
    /\ At(p, "signup_commit")
    /\ IF UserByEmail(users, proc[p].email) # NoUser
       THEN \* IntegrityError: db.rollback(), 500
            /\ proc' = [proc EXCEPT ![p] =
                           Respond(@, 500, "Error during signup process")]
            /\ UNCHANGED <<users, held, reg>>
       ELSE LET row == [proc[p].user EXCEPT !.id = Len(users) + 1]
                tok == create_access_token(row.email, <<HOUR>>, now)
            IN  /\ users' = Append(users, row)
                /\ proc' = [proc EXCEPT ![p] =
                               [Respond(@, 201, "none") EXCEPT !.user = row,
                                                               !.token = tok]]
                /\ held' = [held EXCEPT ![row.email] = tok]
                /\ reg' = [reg EXCEPT ![row.email] = proc[p].password]
    /\ UNCHANGED <<posts, nextPostId, cache, now, ticks, dropped, serial>>
    /\ UNCHANGED tokVars

\* login, lines 69-75
Login(p, email, password) ==
    /\ Begin(p)
    /\ LET r == [Idle EXCEPT !.op = "login", !.email = email,
                             !.password = password]
           user == UserByEmail(users, email)
       IN  IF user = NoUser \/ ~verify_password(user, password)
           THEN /\ proc' = [proc EXCEPT ![p] =
                               Respond(r, 401, "Invalid credentials")]
                /\ UNCHANGED held
           ELSE LET tok == create_access_token(user.email, <<HOUR>>, now)
                IN  /\ proc' = [proc EXCEPT ![p] =
                                   [Respond(r, 200, "none") EXCEPT !.user = user,
                                                                   !.token = tok]]
                    /\ held' = [held EXCEPT ![user.email] = tok]
    /\ UNCHANGED <<users, posts, nextPostId, cache, now, ticks, reg, dropped,
                   serial>>
    /\ UNCHANGED tokVars

\* a request whose Depends(auth.get_current_user) raised: the handler body does
\* not run and the exception is the response
Rejected(p, op, r) ==
    /\ proc' = [proc EXCEPT ![p] =
                   Respond([Idle EXCEPT !.op = op], r.status, r.detail)]
    /\ UNCHANGED <<posts, nextPostId, cache>>

\* history: a commit that changes the posts of `email` happens while the
\* read_posts requests of that user marked here are in flight
Racing(email) ==
    [q \in Procs |->
        IF proc[q].op = "read" /\ InFlight(q) /\ proc[q].user.email = email
        THEN [proc[q] EXCEPT !.raced = TRUE] ELSE proc[q]]

\* ----------------------------------- posts.py: create_post, read_posts, delete_post
\* mutant: the post is committed before the caller is known
CreatePost_Unchecked(p, authorization, text) ==
    /\ Begin(p)
    /\ nextPostId <= MaxPosts
    /\ LET r == get_current_user(authorization, users, now)
           post == [id |-> nextPostId, user_id |-> r.user.id, text |-> text]
       IN  /\ posts' = posts \cup {post}
           /\ nextPostId' = nextPostId + 1
           /\ proc' = [Racing(r.user.email) EXCEPT ![p] =
                          IF r.kind = "raise"
                          THEN Respond([Idle EXCEPT !.op = "create"],
                                       r.status, r.detail)
                          ELSE [Idle EXCEPT !.pc = "create_pop", !.op = "create",
                                            !.user = r.user, !.posts = {post}]]
           /\ UNCHANGED cache
    /\ UNCHANGED <<users, now, ticks, held, reg, dropped, serial>>
    /\ UNCHANGED tokVars

\* create_post, lines 36-39: the post is built, added and committed
CreatePost(p, authorization, text) ==
    /\ Begin(p)
    /\ nextPostId <= MaxPosts
    /\ LET r == get_current_user(authorization, users, now)
           post == [id |-> nextPostId, user_id |-> r.user.id, text |-> text]
       IN  IF r.kind = "raise" THEN Rejected(p, "create", r)
           ELSE /\ posts' = posts \cup {post}
                /\ nextPostId' = nextPostId + 1
                /\ proc' = [Racing(r.user.email) EXCEPT ![p] =
                               [Idle EXCEPT !.pc = "create_pop", !.op = "create",
                                            !.user = r.user, !.posts = {post}]]
                /\ UNCHANGED cache
    /\ UNCHANGED <<users, now, ticks, held, reg, dropped, serial>>
    /\ UNCHANGED tokVars

\* mutant: create_post returns without cache.pop
CreatePop_NoPop(p) ==
    /\ At(p, "create_pop")
    /\ proc' = [proc EXCEPT ![p] = Respond(@, 201, "none")]
    /\ UNCHANGED <<users, posts, nextPostId, cache, now, ticks, held, reg,
                   dropped, serial>>
    /\ UNCHANGED tokVars

\* create_post, lines 40-41: cache.pop(current_user.email, None); return post
CreatePop(p) ==
    /\ At(p, "create_pop")
    /\ cache' = Invalidate(cache, proc[p].user.email)
    /\ proc' = [proc EXCEPT ![p] =
                   [Respond(@, 201, "none") EXCEPT
                        !.popped = Contains(cache, proc[p].user.email, now)]]
    /\ dropped' = [dropped EXCEPT ![proc[p].user.email] =
                       IF Contains(cache, proc[p].user.email, now)
                       THEN "create" ELSE "none"]
    /\ UNCHANGED <<users, posts, nextPostId, now, ticks, held, reg, serial>>
    /\ UNCHANGED tokVars

\* read_posts, line 64: if current_user.email in cache
ReadPosts(p, authorization) ==
    /\ Begin(p)
    /\ LET r == get_current_user(authorization, users, now)
       IN  IF r.kind = "raise" THEN Rejected(p, "read", r)
           ELSE /\ proc' = [proc EXCEPT ![p] =
                               [Idle EXCEPT
                                    !.pc = IF Contains(cache, r.user.email, now)
                                           THEN "read_get" ELSE "read_query",
                                    !.op = "read", !.user = r.user]]
                /\ UNCHANGED <<posts, nextPostId, cache>>
    /\ UNCHANGED <<users, now, ticks, held, reg, dropped, serial>>
    /\ UNCHANGED tokVars

\* read_posts, line 65: return cache[current_user.email]; a key that is gone or
\* has expired since line 64 raises KeyError, which nothing handles (500)
ReadGet(p) ==
    /\ At(p, "read_get")
    /\ LET email == proc[p].user.email
       IN  IF Contains(cache, email, now)
           THEN proc' = [proc EXCEPT ![p] =
                            [Respond(@, 200, "none") EXCEPT
                                 !.posts = cache[email].posts, !.hit = TRUE]]
           ELSE proc' = [proc EXCEPT ![p] =
                            Respond(@, 500, "Internal Server Error")]
    /\ UNCHANGED <<users, posts, nextPostId, cache, now, ticks, held, reg,
                   dropped, serial>>
    /\ UNCHANGED tokVars

\* read_posts, line 66: the query
ReadQuery(p) ==
    /\ At(p, "read_query")
    /\ proc' = [proc EXCEPT ![p] =
                   [@ EXCEPT !.pc = "read_store",
                             !.posts = PostsOf(posts, proc[p].user.id)]]
    /\ UNCHANGED <<users, posts, nextPostId, cache, now, ticks, held, reg,
                   dropped, serial>>
    /\ UNCHANGED tokVars

\* read_posts, lines 67-68: cache[current_user.email] = posts; return posts
ReadStore(p) ==
    /\ At(p, "read_store")
    /\ cache' = Store(cache, proc[p].user.email, proc[p].posts, now)
    /\ proc' = [proc EXCEPT ![p] = Respond(@, 200, "none")]
    /\ UNCHANGED <<users, posts, nextPostId, now, ticks, held, reg, dropped,
                   serial>>
    /\ UNCHANGED tokVars

\* delete_post, lines 93-96: the lookup, 404, db.delete
DeletePost(p, authorization, post_id) ==
    /\ Begin(p)
    /\ LET r == get_current_user(authorization, users, now)
           found == FindPost(posts, post_id, r.user.id)
           d == [Idle EXCEPT !.op = "delete", !.user = r.user,
                             !.post_id = post_id]
       IN  IF r.kind = "raise" THEN Rejected(p, "delete", r)
           ELSE /\ proc' = [proc EXCEPT ![p] =
                               IF found = {}
                               THEN Respond(d, 404, "Post not found")
                               ELSE [d EXCEPT !.pc = "delete_commit",
                                              !.posts = found]]
                /\ UNCHANGED <<posts, nextPostId, cache>>
    /\ UNCHANGED <<users, now, ticks, held, reg, dropped, serial>>
    /\ UNCHANGED tokVars

\* delete_post, line 97: db.commit() flushes the DELETE of the row; a row that a
\* concurrent request deleted first matches nothing
DeleteCommit(p) ==
    /\ At(p, "delete_commit")
    /\ posts' = posts \ proc[p].posts
    /\ proc' = [(IF proc[p].posts \subseteq posts
                 THEN Racing(proc[p].user.email) ELSE proc)
                    EXCEPT ![p] = [proc[p] EXCEPT !.pc = "delete_pop"]]
    /\ UNCHANGED <<users, nextPostId, cache, now, ticks, held, reg, dropped,
                   serial>>
    /\ UNCHANGED tokVars

\* mutant: delete_post returns without cache.pop
DeletePop_NoPop(p) ==
    /\ At(p, "delete_pop")
    /\ proc' = [proc EXCEPT ![p] = Respond(@, 204, "none")]
    /\ UNCHANGED <<users, posts, nextPostId, cache, now, ticks, held, reg,
                   dropped, serial>>
    /\ UNCHANGED tokVars

\* delete_post, line 98: cache.pop(current_user.email, None); 204
DeletePop(p) ==
    /\ At(p, "delete_pop")
    /\ cache' = Invalidate(cache, proc[p].user.email)
    /\ proc' = [proc EXCEPT ![p] =
                   [Respond(@, 204, "none") EXCEPT
                        !.popped = Contains(cache, proc[p].user.email, now)]]
    /\ dropped' = [dropped EXCEPT ![proc[p].user.email] =
                       IF Contains(cache, proc[p].user.email, now)
                       THEN "delete" ELSE "none"]
    /\ UNCHANGED <<users, posts, nextPostId, now, ticks, held, reg, serial>>
    /\ UNCHANGED tokVars

\* ---------------------------------------------------------------- time
\* the clock advances by d units; expired cache entries are gone
Tick(d) ==
    /\ Quiet
    /\ ticks < MaxTicks
    /\ ticks' = ticks + 1
    /\ now' = now + d
    /\ cache' = Expire(cache, now + d)
    /\ outcome' = NoCall
    /\ UNCHANGED <<users, posts, nextPostId, proc, held, reg, dropped, serial,
                   authz, issue>>

\* ------------------------------------------------------ specifications
\* the users a behaviour of the post handlers starts with: both have signed up
\* at time 0 and hold the token signup returned
Registered ==
    << [id |-> 1, email |-> "a@x.com",
        hashed_password |-> HashPw("password1", "s1")],
       [id |-> 2, email |-> "b@x.com",
        hashed_password |-> HashPw("password2", "s1")] >>

\* the service as it starts, with the rows of table users given
Start(us, oneAtATime) ==
    /\ users = us
    /\ posts = {}
    /\ nextPostId = 1
    /\ cache = [e \in Emails |-> NoEntry]
    /\ now = 0
    /\ ticks = 0
    /\ proc = [p \in Procs |-> Idle]
    /\ held = [e \in Emails |->
                  IF UserByEmail(us, e) = NoUser THEN NoToken
                  ELSE create_access_token(e, <<HOUR>>, 0)]
    /\ reg = [e \in Emails |->
                 IF UserByEmail(us, e) = NoUser THEN "none"
                 ELSE UserByEmail(us, e).hashed_password[2]]
    /\ dropped = [e \in Emails |-> "none"]
    /\ serial = oneAtATime
    /\ authz = <<>>
    /\ issue = <<>>
    /\ outcome = NoCall

Init == Start(Registered, FALSE)
InitUsers == Start(<<>>, FALSE)
InitSeq == Start(<<>>, TRUE)

\* signups with passwords from pws, logins with any password
UsersNext(pws) ==
    \/ \E p \in Procs, e \in Emails, pw \in pws, s \in Salts :
           Signup(p, e, pw, s)
    \/ \E p \in Procs : SignupCommit(p)
    \/ \E p \in Procs, e \in Emails, pw \in Passwords : Login(p, e, pw)

PostsNext ==
    \/ \E p \in Procs, h \in ClientHeaders, t \in Texts : CreatePost(p, h, t)
    \/ \E p \in Procs : CreatePop(p)
    \/ \E p \in Procs, h \in ClientHeaders : ReadPosts(p, h)
    \/ \E p \in Procs : ReadGet(p)
    \/ \E p \in Procs : ReadQuery(p)
    \/ \E p \in Procs : ReadStore(p)
    \/ \E p \in Procs, h \in ClientHeaders, i \in 1..MaxPosts : DeletePost(p, h, i)
    \/ \E p \in Procs : DeleteCommit(p)
    \/ \E p \in Procs : DeletePop(p)

Transport ==
    \/ \E p \in Procs : Deliver(p)
    \/ Tick(CACHE_TTL)

\* overlapping requests to the post handlers, by two registered users
Next == PostsNext \/ Transport
Spec == Init /\ [][Next]_vars

\* overlapping signup and login requests
NextUsers == UsersNext(Passwords) \/ Transport
SpecUsers == InitUsers /\ [][NextUsers]_vars

\* requests to the whole service, sent one at a time
NextSeq == UsersNext({"password1"}) \/ PostsNext \/ Transport
SpecSeq == InitSeq /\ [][NextSeq]_vars

\* ------------------------------------------------- token experiments
\* Authorization values that no token of the service makes up
SampleHeaders ==
    { <<>>,
      <<W("Bearer")>>,
      <<W("Bearer"), W("abc")>>,
      <<W("Token"), SP, W("abc")>>,
      <<W("Token"), SP, Jwt("a@x.com", DAY, "ok")>>,
      <<W("Bearer"), SP>>,
      <<W("Bearer"), SP, W("abc")>>,
      <<W("Bearer"), SP, SP, W("abc")>>,
      <<W("Bearer"), SP, W("abc"), SP, W("def")>>,
      Bearer(Jwt("a@x.com", DAY, "bad")) }

Deltas == { <<>>, <<0>>, <<CACHE_TTL>>, <<HOUR>> }

\* create_access_token(data, expires_delta) is called now, data with or
\* without a "sub", and the token is put in a Bearer header
IssueToken(sub, delta) ==
    /\ authz' = Bearer(create_access_token(sub, delta, now))
    /\ issue' = << [t0 |-> now, delta |-> delta] >>
    /\ outcome' = NoCall
    /\ UNCHANGED <<users, posts, nextPostId, cache, now, ticks, proc, held, reg,
                   dropped, serial>>

\* a header from SampleHeaders is taken
Present(h) ==
    /\ authz' = h
    /\ issue' = <<>>
    /\ outcome' = NoCall
    /\ UNCHANGED <<users, posts, nextPostId, cache, now, ticks, proc, held, reg,
                   dropped, serial>>

\* get_current_user(authz, db) is called now
Resolve ==
    /\ outcome' = [fn |-> "resolve", r |-> get_current_user(authz, users, now)]
    /\ UNCHANGED <<users, posts, nextPostId, cache, now, ticks, proc, held, reg,
                   dropped, serial, authz, issue>>

\* decode_jwt_token is called now on the second part of a two-part header
Decode ==
    /\ Len(Split(authz)) = 2
    /\ outcome' = [fn |-> "decode", r |-> decode_jwt_token(Split(authz)[2], now)]
    /\ UNCHANGED <<users, posts, nextPostId, cache, now, ticks, proc, held, reg,
                   dropped, serial, authz, issue>>

InitAuth == \E n \in 0..Len(Registered) : Start(SubSeq(Registered, 1, n), FALSE)

NextAuth ==
    \/ \E sub \in Emails \cup {"none"}, delta \in Deltas : IssueToken(sub, delta)
    \/ \E h \in SampleHeaders : Present(h)
    \/ Resolve
    \/ Decode
    \/ \E d \in {CACHE_TTL, HOUR, DAY} : Tick(d)

\* tokens and headers against the resolver, over a table of 0..2 users
SpecAuth == InitAuth /\ [][NextAuth]_vars

\* ---------------------------------------------------------------- claims
\* a response of handler op with the given status is being returned by slot p
Returned(p, op, status) ==
    proc[p].pc = "done" /\ proc[p].op = op /\ proc[p].status = status

\* the rows of table posts whose owner is uid
Owned(uid) == {q \in posts : q.user_id = uid}

\* C1: a read_posts request during which no create or delete of its user commits
\* (so every commit precedes its start) returns the user's list as it is
\* in storage, under every interleaving with other requests.
C1_ReadNotOlderThanCommit ==
    \A p \in Procs :
        (Returned(p, "read", 200) /\ ~proc[p].raced)
            => proc[p].posts = Owned(proc[p].user.id)

\* C2: with requests sent one at a time, the list read_posts returns contains
\* every post of the caller that create_post has committed and nobody deleted,
\* also when the create found a live cache entry.
C2_ReadReflectsCreate ==
    \A p \in Procs :
        (serial /\ Returned(p, "read", 200))
            => Owned(proc[p].user.id) \subseteq proc[p].posts

\* C2 witness: a read returns the newest post, and the create_post that made it
\* removed a live cache entry of the caller
C2_Witness ==
    \E p \in Procs :
        /\ serial
        /\ Returned(p, "read", 200)
        /\ dropped[proc[p].user.email] = "create"
        /\ \E q \in proc[p].posts : q.id = nextPostId - 1

\* C3: with requests sent one at a time, the list read_posts returns contains no
\* post that is gone from storage, also when the delete found a live cache entry.
C3_ReadReflectsDelete ==
    \A p \in Procs :
        (serial /\ Returned(p, "read", 200)) => proc[p].posts \subseteq posts

\* C3 witness: a read returns a list without a deleted post, and the delete_post
\* before it removed a live cache entry of the caller
C3_Witness ==
    \E p \in Procs :
        /\ serial
        /\ Returned(p, "read", 200)
        /\ dropped[proc[p].user.email] = "delete"
        /\ \E i \in 1..(nextPostId - 1) :
               \A q \in posts \cup proc[p].posts : q.id # i

\* C4: a 401 raised inside get_current_user (wrong prefix, expired or invalid
\* token, missing sub, unknown user) leaves it as a 401 with
\* WWW-Authenticate: Bearer.
C4_AuthFailuresStay401 ==
    (outcome.fn = "resolve" /\ ResolveBody(authz, users, now).status = 401)
        => (outcome.r.status = 401 /\ outcome.r.www = "Bearer")

\* the header does not split into exactly two parts, or its first part is not
\* the word Bearer
Malformed(h) == Len(Split(h)) # 2 \/ Split(h)[1] # <<W("Bearer")>>

\* C5: a header with a missing or wrong scheme prefix, or not of exactly two
\* parts, is rejected with 400 "Authorization header is malformed", and
\* decode_jwt_token is not called.
C5_MalformedHeaderIs400 ==
    (outcome.fn = "resolve" /\ Malformed(authz))
        => /\ outcome.r.status = 400
           /\ outcome.r.detail = "Authorization header is malformed"
           /\ ~outcome.r.decoded

\* C6: a token issued at t0 with ttl T is accepted by decode_jwt_token before
\* t0 + T and rejected with "Token has expired" after t0 + T.
C6_ValidUntilExpiry ==
    (outcome.fn = "decode" /\ issue # <<>> /\ issue[1].delta # <<>>)
        => LET expiry == issue[1].t0 + issue[1].delta[1]
           IN  /\ now < expiry => outcome.r.kind = "return"
               /\ now > expiry => /\ outcome.r.status = 401
                                  /\ outcome.r.detail = "Token has expired"

\* the rows of table users with this email
RowsOf(email) == {i \in 1..Len(users) : users[i].email = email}

\* C7: a signup that answers when a signup with the same email has succeeded,
\* and is not that signup, answers 400 "Email already registered" without a
\* token, and the email has one row; overlapping signups included.
C7_DuplicateSignupIs400 ==
    \A p \in Procs :
        (proc[p].pc = "done" /\ proc[p].op = "signup" /\ reg[proc[p].email] # "none")
            => /\ Cardinality(RowsOf(proc[p].email)) = 1
               /\ proc[p].status # 201
                      => /\ proc[p].status = 400
                         /\ proc[p].detail = "Email already registered"
                         /\ proc[p].token = NoToken

\* C8: login with the email and password of a successful signup returns 200 and
\* a token whose subject is the email; login with another password, or with an
\* email nobody signed up with, returns 401 "Invalid credentials" and no token.
C8_LoginMatchesSignup ==
    \A p \in Procs :
        (proc[p].pc = "done" /\ proc[p].op = "login")
            => IF reg[proc[p].email] = proc[p].password
               THEN /\ proc[p].status = 200
                    /\ proc[p].token = Jwt(proc[p].email, proc[p].token.exp, "ok")
               ELSE /\ proc[p].status = 401
                    /\ proc[p].detail = "Invalid credentials"
                    /\ proc[p].token = NoToken

\* C8 witness: a login with the registered password answers 200
C8_Witness ==
    \E p \in Procs :
        /\ Returned(p, "login", 200)
        /\ reg[proc[p].email] = proc[p].password
        /\ proc[p].token.sub = proc[p].email

\* C9: a delete_post of an authenticated caller for a post id that is absent or
\* owned by someone else answers 404 and changes neither table posts nor the
\* cache; a row leaves table posts only in the commit of a delete_post of its
\* owner for that id, and that request answers 204.
C9_DeleteOnlyByOwner ==
    [][ /\ \A p \in Procs :
             ( /\ proc[p].pc = "idle"
               /\ proc'[p].op = "delete"
               /\ proc'[p].user # NoUser
               /\ ~\E q \in posts : /\ q.id = proc'[p].post_id
                                    /\ q.user_id = proc'[p].user.id )
                 => /\ proc'[p].pc = "done"
                    /\ proc'[p].status = 404
                    /\ posts' = posts
                    /\ cache' = cache
        /\ \A q \in posts \ posts' :
             \E p \in Procs : /\ proc[p].pc = "delete_commit"
                              /\ proc'[p].pc = "delete_pop"
                              /\ proc[p].user.id = q.user_id
                              /\ proc[p].post_id = q.id
        /\ \A p \in Procs :
             (proc[p].pc = "delete_pop" /\ proc'[p].pc = "done")
                 => proc'[p].status = 204
      ]_vars

\* C9 witness: a delete_post for a post that exists and belongs to another user
\* answers 404
C9_Witness ==
    \E p \in Procs :
        /\ Returned(p, "delete", 404)
        /\ \E q \in posts : q.id = proc[p].post_id /\ q.user_id # proc[p].user.id

\* C10: every post in a list that read_posts returns is owned by the caller,
\* served from the cache or loaded from storage.
C10_ReadOnlyOwnPosts ==
    \A p \in Procs :
        Returned(p, "read", 200)
            => \A q \in proc[p].posts : q.user_id = proc[p].user.id

\* C10 witness: a non-empty list is served from the cache while another user has
\* posts in storage
C10_Witness ==
    \E p \in Procs :
        /\ Returned(p, "read", 200)
        /\ proc[p].hit
        /\ proc[p].posts # {}
        /\ \E q \in posts : q.user_id # proc[p].user.id

\* C11: create_access_token embeds the expiry now + ttl for every ttl that is
\* supplied, a ttl of zero included, and now + 1 day only when none is supplied.
C11_ExpiryIsNowPlusTtl ==
    issue # <<>>
        => authz[3].exp = issue[1].t0 + (IF issue[1].delta = <<>> THEN DAY
                                         ELSE issue[1].delta[1])

\* the tokens signup or login can have returned for this email up to now
HourTokens(email) == {create_access_token(email, <<HOUR>>, t0) : t0 \in 0..now}

\* C12: every token that signup or login returns is a one-hour token for a
\* registered email; every such token, whenever it was issued, is accepted by
\* get_current_user before its expiry, which returns the row of that email,
\* whatever requests were served since; and no request changes or removes a row
\* of table users.
C12_TokenValidUntilExpiry ==
    /\ [](/\ \A e \in Emails :
                held[e] # NoToken
                    => held[e] \in HourTokens(e) /\ UserByEmail(users, e) # NoUser
          /\ \A p \in Procs :
                proc[p].token # NoToken => proc[p].token \in HourTokens(proc[p].email)
          /\ \A i \in 1..Len(users) :
                \A tok \in HourTokens(users[i].email) :
                    now < tok.exp
                        => LET r == get_current_user(Bearer(tok), users, now)
                           IN  r.kind = "return" /\ r.user = users[i])
    /\ [][Len(users') >= Len(users) /\ SubSeq(users', 1, Len(users)) = users]_vars

\* C12 witness: a handler has just accepted a token that was issued before the
\* clock moved, after posts were created and another user signed up
C12_Witness ==
    \E p \in Procs :
        /\ Returned(p, "read", 200)
        /\ held[proc[p].user.email] # NoToken
        /\ held[proc[p].user.email].exp < now + HOUR
        /\ posts # {}
        /\ Len(users) = 2

\* C13: when the commit of a signup fails the request answers 500 without a
\* token, and table users has no row for its email, so that a later signup with
\* the email can succeed.
C13_FailedSignupLeavesNoRow ==
    \A p \in Procs :
        (proc[p].pc = "done" /\ proc[p].op = "signup" /\ proc[p].status = 500)
            => /\ proc[p].token = NoToken
               /\ RowsOf(proc[p].email) = {}

\* C14: in every reachable state the user_id of every post is the id of a row of
\* table users, and as long as a post is in table posts its user_id and its
\* text are what create_post wrote.
C14_PostOwnerExistsAndStays ==
    /\ [](\A q \in posts : \E i \in 1..Len(users) : users[i].id = q.user_id)
    /\ [][\A q \in posts : \A r \in posts' : q.id = r.id => q = r]_vars

\* C14 witness: the second user owns a post after another post was deleted
C14_Witness ==
    /\ \E q \in posts : q.user_id = 2
    /\ Cardinality(posts) < nextPostId - 1

\* C15: a read_posts of an authenticated caller answers 200 with the cached list
\* if it found a live entry of the caller (stored less than 300 s ago), and
\* otherwise with the list it queried, which it has stored under the caller's
\* email with a fresh 300 s expiry; a list served from the cache is never 300 s
\* old or older.
C15_ReadServesLiveEntryOrLoads ==
    \A p \in Procs :
        (proc[p].pc = "done" /\ proc[p].op = "read" /\ proc[p].user # NoUser)
            => LET email == proc[p].user.email
               IN  /\ proc[p].status = 200
                   /\ proc[p].hit
                          => /\ Contains(cache, email, now)
                             /\ proc[p].posts = cache[email].posts
                   /\ ~proc[p].hit
                          => cache[email] = [posts |-> proc[p].posts,
                                             expires |-> now + CACHE_TTL]

\* C16: whenever no request is in flight, every live cache entry of a user equals
\* the set of that user's posts in storage, under every interleaving.
C16_QuiescentCacheMatchesStorage ==
    (\A p \in Procs : proc[p].pc = "idle")
        => \A e \in Emails :
               Contains(cache, e, now)
                   => cache[e].posts = Owned(UserByEmail(users, e).id)

\* C17: under every interleaving of signup requests no two rows of table users
\* share an email; a signup answers 201 with a token only in the step that adds
\* the first and only row of its email, so of the signups of one email at most
\* one answers 201; every other signup answers 400 or 500 without a token.
C17_OneSignupPerEmail ==
    /\ [](/\ \A e \in Emails : Cardinality(RowsOf(e)) <= 1
          /\ \A p \in Procs :
                (proc[p].pc = "done" /\ proc[p].op = "signup")
                    => IF proc[p].status = 201
                       THEN /\ proc[p].token # NoToken
                            /\ proc[p].token.sub = proc[p].email
                            /\ proc[p].user = UserByEmail(users, proc[p].email)
                       ELSE /\ proc[p].status \in {400, 500}
                            /\ proc[p].token = NoToken)
    /\ [][ /\ \A p \in Procs :
                ( /\ proc[p].pc # "done"
                  /\ proc'[p].pc = "done"
                  /\ proc'[p].op = "signup"
                  /\ proc'[p].status = 201 )
                    => /\ RowsOf(proc'[p].email) = {}
                       /\ users' = Append(users, proc'[p].user)
           /\ \A i \in 1..Len(users) : i <= Len(users') /\ users'[i] = users[i]
         ]_vars

\* C17 witness: of two overlapping signups with one email the first has
\* answered 201 and the second answers 500, with one row for the email
C17_Witness ==
    \E p \in Procs :
        /\ proc[p].pc = "done"
        /\ proc[p].op = "signup"
        /\ proc[p].status = 500
        /\ proc[p].token = NoToken
        /\ reg[proc[p].email] # "none"
        /\ Cardinality(RowsOf(proc[p].email)) = 1

====
